---- MODULE Spec2Model ----
(***************************************************************************)
(* Model of getSpec (packages/openapi-ts/src/getSpec.ts): the conditional  *)
(* fetch used by watch mode.  One watch session polls one input; every     *)
(* poll is one invocation of getSpec, followed here from await to await.   *)
(*                                                                         *)
(* Strings of the program are sequences of code points, byte buffers are   *)
(* sequences of bytes, `undefined` is a record with def = FALSE, and a     *)
(* missing header (Headers.get() === null) is the value Null.              *)
(***************************************************************************)
EXTENDS Integers, Sequences, FiniteSets, TLC

\* ------------------------------------------------------------------ bounds
MaxPolls == 3

\* ------------------------------------------------------- values and inputs
Null == "null"

\* resolvedInput.type as produced by getResolvedInput
InputTypes == {"url", "file", "json"}

\* fetchOptions.method: "none" when fetchOptions carries no method
FetchMethods == {"none", "POST"}

\* response.status values the transport can hand back
Statuses == {100, 200, 304, 404}

\* values of the ETag / Last-Modified response headers (Null: header absent)
ETags == {Null, "e1", "e2"}
LastModifieds == {Null, "m1", "m2"}

\* body bytes: 97 is ASCII 'a'; 254 and 255 never occur in well-formed UTF-8
Bodies == {<<>>, <<97>>, <<254>>, <<255>>}

Undefined == [def |-> FALSE, val |-> <<>>]
Def(v) == [def |-> TRUE, val |-> v]

\* a Response: status, the two validators, body (hasBody = FALSE: body null)
Responses ==
  {r \in [status : Statuses, etag : ETags, lastModified : LastModifieds,
          hasBody : BOOLEAN, body : Bodies] :
     ~r.hasBody => r.body = <<>>}

\* The responses the transport is let to give.  getSpec reads nothing but
\* the status of a response with status >= 300, never the body of the
\* response to its HEAD call, and never a header of the response to its GET
\* call; one response stands for those that differ only there.
HeadResponses ==
  {r \in Responses :
     /\ ~r.hasBody
     /\ r.status >= 300 => r.etag = Null /\ r.lastModified = Null}

GetResponses ==
  {r \in Responses :
     /\ r.lastModified = Null
     /\ r.etag \in {Null, "e1"}
     /\ r.status # 200 => r.etag = Null /\ ~r.hasBody}

\* A server that names every version of the document by its ETag: version v
\* is served with status 200, the ETag and the body of v
Versions == {1, 2}

VersionETag(v) == IF v = 1 THEN "e1" ELSE "e2"

VersionBody(v) == IF v = 1 THEN <<97>> ELSE <<254>>

\* what sendRequest resolves with for HEAD and for GET; server 0 stands for
\* a transport free to answer anything
HeadAnswers(srv) ==
  IF srv \in Versions
    THEN {[status |-> 200, etag |-> VersionETag(srv), lastModified |-> Null,
           hasBody |-> FALSE, body |-> <<>>]}
    ELSE HeadResponses

GetAnswers(srv) ==
  IF srv \in Versions
    THEN {[status |-> 200, etag |-> VersionETag(srv), lastModified |-> Null,
           hasBody |-> TRUE, body |-> VersionBody(srv)]}
    ELSE GetResponses

NoResponse ==
  [status |-> 0, etag |-> Null, lastModified |-> Null,
   hasBody |-> FALSE, body |-> <<>>]

\* response.ok
Ok(r) == r.status >= 200 /\ r.status <= 299

\* new TextDecoder().decode(arrayBuffer): UTF-8, malformed bytes become U+FFFD
RECURSIVE Decode(_)
Decode(bytes) ==
  IF bytes = <<>> THEN <<>>
  ELSE <<IF Head(bytes) < 128 THEN Head(bytes) ELSE 65533>> \o Decode(Tail(bytes))

\* JavaScript truthiness of an optional string
Truthy(v) == v.def /\ v.val # <<>>

\* resolvedInput.type as a string value
TypeName(t) ==
  CASE t = "file" -> <<102, 105, 108, 101>>
    [] t = "json" -> <<106, 115, 111, 110>>
    [] OTHER -> <<117, 114, 108>>

\* the method sendRequest receives: { method: m, ...fetchOptions }
RequestMethod(m, fm) == IF fm = "none" THEN m ELSE fm

\* "undefined" | "true" | "false": an optional boolean
Bool3(b) == IF b THEN "true" ELSE "false"

\* new Response(error.message): status 200, the message as body
ErrorResponse ==
  [status |-> 200, etag |-> Null, lastModified |-> Null,
   hasBody |-> TRUE, body |-> <<101>>]

\* WatchValues as created for a new watch session
EmptyHeaders == [n \in {"If-None-Match", "If-Modified-Since"} |-> Null]

EmptyWatch ==
  [lastValue |-> Undefined, headers |-> EmptyHeaders,
   isHeadMethodSupported |-> "undefined"]

\* ------------------------------------------------- the decisions of getSpec
\* ShouldSendHead with isHeadMethodSupported not consulted
ShouldSendHead_IgnoresSupport(w) == Truthy(w.lastValue)

\* ShouldSendHead with the first-run test dropped
ShouldSendHead_AlsoFirstRun(w) == w.isHeadMethodSupported # "false"

\* line 52: send HEAD unless first run or unsupported
ShouldSendHead(w) ==
  Truthy(w.lastValue) /\ w.isHeadMethodSupported # "false"

\* StatusNotOk with redirects and 304 let through
StatusNotOk_From400(r) == r.status >= 400

\* lines 84 and 193: request.response.status >= 300
StatusNotOk(r) == r.status >= 300

\* line 112: a server that supported HEAD answers not-ok
HeadRegressed(w, r) == ~Ok(r) /\ w.isHeadMethodSupported = "true"

\* lines 121-123
RecordHeadSupport(w, r) ==
  IF w.isHeadMethodSupported = "undefined"
    THEN [w EXCEPT !.isHeadMethodSupported = Bool3(Ok(r))]
    ELSE w

\* line 125
IsNotModifiedStatus(r) == r.status = 304

\* CompareETag with the stored tag dropped when the response has none
CompareETag_Cleared(hc, w, r) ==
  IF hc = "undefined" /\ r.etag # Null
    THEN LET changed == r.etag # w.headers["If-None-Match"]
         IN [hasChanged |-> Bool3(changed),
             watch |-> IF changed
                         THEN [w EXCEPT !.headers["If-None-Match"] = r.etag]
                         ELSE w]
    ELSE [hasChanged |-> hc,
          watch |-> [w EXCEPT !.headers["If-None-Match"] = Null]]

\* CompareETag with the new tag not stored
CompareETag_NotStored(hc, w, r) ==
  IF hc = "undefined" /\ r.etag # Null
    THEN [hasChanged |-> Bool3(r.etag # w.headers["If-None-Match"]),
          watch |-> w]
    ELSE [hasChanged |-> hc, watch |-> w]

\* lines 132-140: [hasChanged, watch] after the ETag comparison
CompareETag(hc, w, r) ==
  IF hc = "undefined" /\ r.etag # Null
    THEN LET changed == r.etag # w.headers["If-None-Match"]
         IN [hasChanged |-> Bool3(changed),
             watch |-> IF changed
                         THEN [w EXCEPT !.headers["If-None-Match"] = r.etag]
                         ELSE w]
    ELSE [hasChanged |-> hc, watch |-> w]

\* CompareLastModified run even when the ETag has decided
CompareLastModified_Always(hc, w, r) ==
  IF r.lastModified # Null
    THEN LET changed == r.lastModified # w.headers["If-Modified-Since"]
         IN [hasChanged |-> Bool3(changed),
             watch |-> IF changed
                         THEN [w EXCEPT !.headers["If-Modified-Since"] =
                                          r.lastModified]
                         ELSE w]
    ELSE [hasChanged |-> hc, watch |-> w]

\* lines 142-151: [hasChanged, watch] after the Last-Modified comparison
CompareLastModified(hc, w, r) ==
  IF hc = "undefined" /\ r.lastModified # Null
    THEN LET changed == r.lastModified # w.headers["If-Modified-Since"]
         IN [hasChanged |-> Bool3(changed),
             watch |-> IF changed
                         THEN [w EXCEPT !.headers["If-Modified-Since"] =
                                          r.lastModified]
                         ELSE w]
    ELSE [hasChanged |-> hc, watch |-> w]

\* CompareContent with the fetched content not written to lastValue
CompareContent_NotStored(hc, w, buf) ==
  IF hc = "undefined"
    THEN [hasChanged |-> Bool3(Def(Decode(buf)) # w.lastValue), watch |-> w]
    ELSE [hasChanged |-> hc, watch |-> w]

\* lines 234-238: [hasChanged, watch] after the content comparison
CompareContent(hc, w, buf) ==
  IF hc = "undefined"
    THEN LET content == Def(Decode(buf))
         IN [hasChanged |-> Bool3(content # w.lastValue),
             watch |-> [w EXCEPT !.lastValue = content]]
    ELSE [hasChanged |-> hc, watch |-> w]

\* FileLastValue with the marker never written
FileLastValue_NoMarker(w, type) == w.lastValue

\* line 242
FileLastValue(w, type) ==
  IF ~Truthy(w.lastValue) THEN Def(TypeName(type)) ELSE w.lastValue

\* line 243
FileHasChanged(w) == IF Truthy(w.lastValue) THEN "false" ELSE "undefined"

\* the value getSpec resolves to (SpecResponse | SpecError), or a rejection
NoResult ==
  [kind |-> "none", arrayBuffer |-> Undefined, response |-> NoResponse]

SpecError(error, r) ==
  [kind |-> error, arrayBuffer |-> Undefined, response |-> r]

SpecResponse(buf) ==
  [kind |-> "content", arrayBuffer |-> buf, response |-> NoResponse]

Rejected ==
  [kind |-> "fault", arrayBuffer |-> Undefined, response |-> NoResponse]

\* FinalResult that never reports not-modified
FinalResult_AlwaysContent(hc, resp, buf) == SpecResponse(buf)

\* lines 246-254; resp.def tells whether `response` is set
FinalResult(hc, resp, buf) ==
  IF hc = "false" /\ resp.def
    THEN SpecError("not-modified", resp.val)
    ELSE SpecResponse(buf)

\* HeadPhase without the return of lines 154-159
HeadPhase_FallsThrough(w, r) ==
  IF HeadRegressed(w, r)
    THEN [ret |-> "not-ok", watch |-> w, hasChanged |-> "undefined"]
    ELSE
      LET w1 == RecordHeadSupport(w, r)
          e == CompareETag("undefined", w1, r)
          l == CompareLastModified(e.hasChanged, e.watch, r)
      IN IF IsNotModifiedStatus(r)
           THEN [ret |-> "not-modified", watch |-> w1,
                 hasChanged |-> "undefined"]
           ELSE [ret |-> "none", watch |-> l.watch,
                 hasChanged |-> l.hasChanged]

\* lines 111-160, run once the HEAD response passed the status check of
\* line 84: ret is the error returned, or "none" when control reaches GET
HeadPhase(w, r) ==
  IF HeadRegressed(w, r)
    THEN [ret |-> "not-ok", watch |-> w, hasChanged |-> "undefined"]
    ELSE
      LET w1 == RecordHeadSupport(w, r)
          e == CompareETag("undefined", w1, r)
          l == CompareLastModified(e.hasChanged, e.watch, r)
      IN IF IsNotModifiedStatus(r)
           THEN [ret |-> "not-modified", watch |-> w1,
                 hasChanged |-> "undefined"]
           ELSE [ret |-> IF l.hasChanged = "false" THEN "not-modified"
                         ELSE "none",
                 watch |-> l.watch, hasChanged |-> l.hasChanged]

\* the await a block moves to when its sendRequest rejects, retried once
OnSendError_RetryOnce(phase, evs) ==
  IF Cardinality({i \in DOMAIN evs : evs[i].kind = "send"
                                     /\ evs[i].phase = phase}) < 2
    THEN (IF phase = "HEAD" THEN "head_send" ELSE "get_send")
    ELSE (IF phase = "HEAD" THEN "head_catch" ELSE "get_catch")

\* lines 92 and 201: a rejected sendRequest is caught, the catch block of the
\* same try runs (evs: the calls made so far; nothing is sent again)
OnSendError(phase, evs) ==
  IF phase = "HEAD" THEN "head_catch" ELSE "get_catch"

\* ------------------------------------------------------------------- state
VARIABLES
  resolvedInput,  \* resolvedInput.type of the watched input
  watch,          \* the WatchValues of the session
  pc,             \* the await getSpec is suspended at; "idle" between polls
  fetchOptions,   \* fetchOptions.method, the same for every poll
  hasChanged,     \* local hasChanged
  request,        \* request.response of the sendRequest just resolved
  response,       \* local response
  arrayBuffer,    \* local arrayBuffer
  events,         \* hook and transport calls of the running/last invocation
  result,         \* what the last invocation resolved to
  watch0,         \* watch as the running/last invocation found it
  prev,           \* summary of the invocation before
  polls,          \* invocations started
  probes,         \* first HEAD outcome of the session, number of HEAD calls
  server,         \* the document version the server holds (0: any answer)
  delivered       \* the versions some poll has returned as content

vars ==
  <<resolvedInput, watch, pc, fetchOptions, hasChanged, request, response,
    arrayBuffer, events, result, watch0, prev, polls, probes, server,
    delivered>>

NoLocalResponse == [def |-> FALSE, val |-> NoResponse]

\* fromEmpty: the invocation found an empty WatchValues; get: the response
\* to its GET call (NoResponse: none); kind: how it settled
NoPoll == [fromEmpty |-> FALSE, get |-> NoResponse, kind |-> "none"]

\* first: status of the first HEAD response (-1: none yet, 0: send failed)
NoProbes == [first |-> -1, count |-> 0]

Probed(p, status) ==
  [first |-> IF p.count = 0 THEN status ELSE p.first, count |-> p.count + 1]

RECURSIVE GetResponseOf(_)
GetResponseOf(evs) ==
  IF evs = <<>> THEN NoResponse
  ELSE IF Head(evs).kind = "send" /\ Head(evs).phase = "GET"
         THEN Head(evs).response
         ELSE GetResponseOf(Tail(evs))

\* kind: "pre" | "post" (a hook call), "send" (a sendRequest call) or "body"
\* (a response.arrayBuffer() call);
\* phase: the block of getSpec that makes the call, "HEAD" or "GET";
\* method: the method the hook is told, or the one sendRequest is given;
\* error: the error a post hook is handed, or the call rejecting;
\* threw: the hook call itself rejected
Event(kind, phase, method, resp, error) ==
  [kind |-> kind, phase |-> phase, method |-> method,
   response |-> resp, error |-> error, threw |-> FALSE]

Threw(e) == [e EXCEPT !.threw = TRUE]

Init ==
  /\ resolvedInput \in InputTypes
  /\ watch = EmptyWatch
  /\ pc = "idle"
  /\ fetchOptions \in FetchMethods
  /\ hasChanged = "undefined"
  /\ request = NoResponse
  /\ response = NoLocalResponse
  /\ arrayBuffer = Undefined
  /\ events = <<>>
  /\ result = NoResult
  /\ watch0 = EmptyWatch
  /\ prev = NoPoll
  /\ polls = 0
  /\ probes = NoProbes
  /\ server = 0
  /\ delivered = {}

\* getSpec settles: the locals go away, the caller holds the result
Return(res) ==
  /\ pc' = "idle"
  /\ result' = res
  /\ hasChanged' = "undefined"
  /\ request' = NoResponse
  /\ response' = NoLocalResponse
  /\ arrayBuffer' = Undefined
  /\ delivered' = IF res.kind = "content" /\ server \in Versions
                    THEN delivered \cup {server} ELSE delivered

\* a new invocation starts: bookkeeping common to both input kinds
Invoke ==
  /\ pc = "idle"
  /\ polls < MaxPolls
  /\ polls' = polls + 1
  /\ prev' = [fromEmpty |-> polls > 0 /\ watch0 = EmptyWatch,
               get |-> GetResponseOf(events), kind |-> result.kind]
  /\ watch0' = watch

\* lines 43-56 / 163-166 for a URL input, up to the first await
PollUrl ==
  /\ Invoke
  /\ resolvedInput = "url"
  /\ pc' = IF ShouldSendHead(watch) THEN "head_pre" ELSE "get_pre"
  /\ events' = <<>>
  /\ result' = NoResult
  /\ UNCHANGED delivered
  /\ UNCHANGED <<server, resolvedInput, fetchOptions, watch, hasChanged, request,
                 response, arrayBuffer, probes>>

\* lines 240-254 for a file or raw input: no await, the call settles at once
PollFile ==
  /\ Invoke
  /\ resolvedInput # "url"
  /\ LET lv == FileLastValue(watch, resolvedInput)
         w1 == [watch EXCEPT !.lastValue = lv]
     IN /\ watch' = w1
        /\ Return(FinalResult(FileHasChanged(w1), NoLocalResponse, Undefined))
  /\ events' = <<>>
  /\ UNCHANGED <<server, resolvedInput, fetchOptions, probes>>

\* lines 56-61: onPreRequest for HEAD resolves
HeadPre ==
  /\ pc = "head_pre"
  /\ events' = Append(events, Event("pre", "HEAD", "HEAD", NoResponse, FALSE))
  /\ pc' = "head_send"
  /\ UNCHANGED <<server, resolvedInput, watch, fetchOptions, hasChanged, request,
                 response, arrayBuffer, result, delivered, watch0, prev, polls, probes>>

\* lines 64-72: sendRequest for HEAD resolves with a response
HeadSend ==
  /\ pc = "head_send"
  /\ \E r \in HeadAnswers(server) :
       /\ request' = r
       /\ events' = Append(events,
            Event("send", "HEAD", RequestMethod("HEAD", fetchOptions), r, FALSE))
       /\ probes' = Probed(probes, r.status)
  /\ pc' = "head_post"
  /\ UNCHANGED <<server, resolvedInput, watch, fetchOptions, hasChanged, response,
                 arrayBuffer, result, delivered, watch0, prev, polls>>

\* lines 64-72, 92: sendRequest for HEAD rejects (network error, timeout)
HeadSendFail ==
  /\ pc = "head_send"
  /\ events' = Append(events,
       Event("send", "HEAD", RequestMethod("HEAD", fetchOptions), NoResponse, TRUE))
  /\ probes' = Probed(probes, 0)
  /\ pc' = OnSendError("HEAD", events')
  /\ UNCHANGED <<server, resolvedInput, watch, fetchOptions, hasChanged, request,
                 response, arrayBuffer, result, delivered, watch0, prev, polls>>

\* lines 75-91, 111-166: onPostRequest resolves, the response is judged
HeadPost ==
  /\ pc = "head_post"
  /\ events' = Append(events, Event("post", "HEAD", "HEAD", request, FALSE))
  /\ IF StatusNotOk(request)
       THEN /\ Return(SpecError("not-ok", request))
            /\ UNCHANGED watch
       ELSE LET h == HeadPhase(watch, request)
            IN /\ watch' = h.watch
               /\ IF h.ret # "none"
                    THEN Return(SpecError(h.ret, request))
                    ELSE /\ pc' = "get_pre"
                         /\ hasChanged' = h.hasChanged
                         /\ response' = [def |-> TRUE, val |-> request]
                         /\ request' = NoResponse
                         /\ UNCHANGED <<arrayBuffer, result, delivered>>
  /\ UNCHANGED <<server, resolvedInput, fetchOptions, watch0, prev, polls, probes>>

\* lines 92-109: onPostRequest resolves in the catch block
HeadCatch ==
  /\ pc = "head_catch"
  /\ events' = Append(events, Event("post", "HEAD", "HEAD", ErrorResponse, TRUE))
  /\ Return(SpecError("not-ok", ErrorResponse))
  /\ UNCHANGED <<server, resolvedInput, fetchOptions, watch, watch0, prev, polls, probes>>

\* lines 166-171: onPreRequest for GET resolves
GetPre ==
  /\ pc = "get_pre"
  /\ events' = Append(events, Event("pre", "GET", "GET", NoResponse, FALSE))
  /\ pc' = "get_send"
  /\ UNCHANGED <<server, resolvedInput, watch, fetchOptions, hasChanged, request,
                 response, arrayBuffer, result, delivered, watch0, prev, polls, probes>>

\* lines 174-181: sendRequest for GET resolves with a response
GetSend ==
  /\ pc = "get_send"
  /\ \E r \in GetAnswers(server) :
       /\ request' = r
       /\ events' = Append(events,
            Event("send", "GET", RequestMethod("GET", fetchOptions), r, FALSE))
  /\ pc' = "get_post"
  /\ UNCHANGED <<server, resolvedInput, watch, fetchOptions, hasChanged, response,
                 arrayBuffer, result, delivered, watch0, prev, polls, probes>>

\* lines 174-181, 201: sendRequest for GET rejects (network error, timeout)
GetSendFail ==
  /\ pc = "get_send"
  /\ events' = Append(events,
       Event("send", "GET", RequestMethod("GET", fetchOptions), NoResponse, TRUE))
  /\ pc' = OnSendError("GET", events')
  /\ UNCHANGED <<server, resolvedInput, watch, fetchOptions, hasChanged, request,
                 response, arrayBuffer, result, delivered, watch0, prev, polls, probes>>

\* lines 234-254: the content comparison and the value returned
Finish(resp, buf) ==
  LET c == CompareContent(hasChanged, watch, buf)
  IN /\ watch' = c.watch
     /\ Return(FinalResult(c.hasChanged, resp, Def(buf)))

\* lines 184-232: onPostRequest resolves, the response is judged; a response
\* with a body leaves getSpec awaiting response.arrayBuffer()
GetPost ==
  /\ pc = "get_post"
  /\ events' = Append(events, Event("post", "GET", "GET", request, FALSE))
  /\ IF StatusNotOk(request) \/ ~Ok(request)
       THEN /\ Return(SpecError("not-ok", request))
            /\ UNCHANGED watch
       ELSE IF request.hasBody
         THEN /\ pc' = "get_body"
              /\ response' = [def |-> TRUE, val |-> request]
              /\ request' = NoResponse
              /\ UNCHANGED <<watch, hasChanged, arrayBuffer, result, delivered>>
         ELSE Finish([def |-> TRUE, val |-> request], <<>>)
  /\ UNCHANGED <<server, resolvedInput, fetchOptions, watch0, prev, polls, probes>>

\* lines 230-254: response.arrayBuffer() resolves with the body
GetBody ==
  /\ pc = "get_body"
  /\ events' = Append(events, Event("body", "GET", "GET", response.val, FALSE))
  /\ Finish(response, response.val.body)
  /\ UNCHANGED <<server, resolvedInput, fetchOptions, watch0, prev, polls, probes>>

\* lines 230-232: response.arrayBuffer() rejects (the connection drops while
\* the body streams); the await is outside every try, getSpec rejects
GetBodyFail ==
  /\ pc = "get_body"
  /\ events' = Append(events, Event("body", "GET", "GET", response.val, TRUE))
  /\ Return(Rejected)
  /\ UNCHANGED <<server, resolvedInput, fetchOptions, watch, watch0, prev, polls, probes>>

\* lines 201-218: onPostRequest resolves in the catch block
GetCatch ==
  /\ pc = "get_catch"
  /\ events' = Append(events, Event("post", "GET", "GET", ErrorResponse, TRUE))
  /\ Return(SpecError("not-ok", ErrorResponse))
  /\ UNCHANGED <<server, resolvedInput, fetchOptions, watch, watch0, prev, polls, probes>>

\* ------------------------------------------------------- hooks that reject
\* the block of getSpec that is running
Phase ==
  IF pc \in {"head_pre", "head_send", "head_post", "head_catch"}
    THEN "HEAD" ELSE "GET"

\* lines 56, 166: onPreRequest is awaited outside try, getSpec rejects
PreThrows ==
  /\ pc \in {"head_pre", "get_pre"}
  /\ events' = Append(events,
       Threw(Event("pre", Phase, Phase, NoResponse, FALSE)))
  /\ Return(Rejected)
  /\ UNCHANGED <<server, resolvedInput, fetchOptions, watch, watch0, prev, polls, probes>>

\* lines 75, 184: onPostRequest is awaited inside try, the catch block runs
PostThrows ==
  /\ pc \in {"head_post", "get_post"}
  /\ events' = Append(events,
       Threw(Event("post", Phase, Phase, request, FALSE)))
  /\ pc' = IF pc = "head_post" THEN "head_catch" ELSE "get_catch"
  /\ UNCHANGED <<server, resolvedInput, watch, fetchOptions, hasChanged, request,
                 response, arrayBuffer, result, delivered, watch0, prev, polls, probes>>

\* lines 95, 204: onPostRequest is awaited inside catch, getSpec rejects
CatchThrows ==
  /\ pc \in {"head_catch", "get_catch"}
  /\ events' = Append(events,
       Threw(Event("post", Phase, Phase, ErrorResponse, TRUE)))
  /\ Return(Rejected)
  /\ UNCHANGED <<server, resolvedInput, fetchOptions, watch, watch0, prev, polls, probes>>

\* ---------------------------------------------------------- specifications
Next ==
  \/ PollUrl
  \/ PollFile
  \/ HeadPre
  \/ HeadSend
  \/ HeadSendFail
  \/ HeadPost
  \/ HeadCatch
  \/ GetPre
  \/ GetSend
  \/ GetSendFail
  \/ GetPost
  \/ GetBody
  \/ GetBodyFail
  \/ GetCatch

\* hooks that always resolve (or are not supplied)
Spec == Init /\ [][Next]_vars

NextHooks ==
  \/ Next
  \/ PreThrows
  \/ PostThrows
  \/ CatchThrows

\* hooks that may reject
SpecHooks == Init /\ [][NextHooks]_vars

\* ------------------------------------------------------------------- types
TypeOK ==
  /\ resolvedInput \in InputTypes
  /\ pc \in {"idle", "head_pre", "head_send", "head_post", "head_catch",
             "get_pre", "get_send", "get_post", "get_body", "get_catch"}
  /\ watch.isHeadMethodSupported \in {"undefined", "true", "false"}
  /\ hasChanged \in {"undefined", "true", "false"}
  /\ result.kind \in {"none", "content", "not-modified", "not-ok", "fault"}
  /\ polls \in 0..MaxPolls

\* ------------------------------------------------- reading the event trace
\* the last invocation has settled and its result is in `result`
Settled == pc = "idle" /\ polls > 0

\* positions of the sendRequest calls made by a block of getSpec
Sends(phase) ==
  {i \in DOMAIN events : events[i].kind = "send" /\ events[i].phase = phase}

AllSends == Sends("HEAD") \cup Sends("GET")

\* a hook call or a body read of the invocation rejected
HookThrew == \E i \in DOMAIN events : events[i].threw

BodyFailed ==
  \E i \in DOMAIN events : events[i].kind = "body" /\ events[i].error

\* the transport call at position i brought no usable response
SendFailed(i) == events[i].error \/ events[i].response.status >= 300

\* ------------------------------------------------------------------ claims

\* C1 (as stated): on the first poll of a URL source (lastValue unset) no
\* HEAD request is issued; the invocation makes exactly one transport call
\* and its method is GET.
C1_FirstPollOneGet ==
  (resolvedInput = "url" /\ polls > 0 /\ ~watch0.lastValue.def) =>
     /\ \A i \in AllSends : events[i].method = "GET"
     /\ Settled => Cardinality(AllSends) = 1

\* C1 (amended): on the first poll of a URL source (lastValue unset) the HEAD
\* block makes no call; the invocation makes exactly one transport call, from
\* the GET block, whose method is GET unless fetchOptions names a method,
\* which then replaces it.
C1_FirstPollOneGetPhaseCall ==
  (resolvedInput = "url" /\ polls > 0 /\ ~watch0.lastValue.def) =>
     /\ \A i \in DOMAIN events : events[i].phase = "GET"
     /\ \A i \in AllSends :
          events[i].method = IF fetchOptions = "none" THEN "GET" ELSE fetchOptions
     /\ Settled => Cardinality(AllSends) = 1

C1_Witness ==
  /\ resolvedInput = "url" /\ Settled /\ ~watch0.lastValue.def
  /\ fetchOptions = "none"
  /\ Cardinality(Sends("GET")) = 1
  /\ \A i \in AllSends : events[i].method = "GET"

\* C2 (as stated): from an empty WatchValues, a first poll whose GET is
\* answered 200 with an ETag and a non-empty body, followed by a poll whose
\* HEAD is answered 200 with the same ETag: the second poll issues a HEAD,
\* issues no GET and returns not-modified.
C2_RepeatedETagNotModified ==
  (/\ Settled /\ resolvedInput = "url" /\ fetchOptions = "none"
   /\ prev.fromEmpty /\ prev.get.status = 200
   /\ prev.get.etag # Null /\ prev.get.body # <<>>
   /\ \E i \in Sends("HEAD") :
        /\ ~events[i].error /\ events[i].response.status = 200
        /\ events[i].response.etag = prev.get.etag)
  => /\ Sends("GET") = {}
     /\ result.kind = "not-modified"

\* C3: when the HEAD response of a poll carries an ETag other than the stored
\* If-None-Match value and the GET that follows succeeds with status 2xx, the
\* poll returns content carrying the body of that GET and the stored
\* If-None-Match value is the new ETag.
C3_ChangedETagContent ==
  \A i \in Sends("HEAD") : \A j \in Sends("GET") :
    (/\ Settled /\ ~BodyFailed
     /\ ~events[i].error /\ events[i].response.etag # Null
     /\ events[i].response.etag # watch0.headers["If-None-Match"]
     /\ ~events[j].error /\ Ok(events[j].response))
    => /\ result.kind = "content"
       /\ result.arrayBuffer = Def(events[j].response.body)
       /\ watch.headers["If-None-Match"] = events[i].response.etag

C3_Witness ==
  /\ Settled /\ result.kind = "content"
  /\ watch0.headers["If-None-Match"] = "e1"
  /\ watch.headers["If-None-Match"] = "e2"
  /\ \E i \in Sends("HEAD") : events[i].response.etag = "e2"
  /\ \E j \in Sends("GET") :
       /\ events[j].response.body = <<97>>
       /\ result.arrayBuffer = Def(<<97>>)

\* C4 (as stated): when the first HEAD probe of the session is answered 404,
\* that poll returns not-ok, isHeadMethodSupported becomes false, and no
\* later poll of the session issues a HEAD.
C4_Head404Unsupported ==
  /\ (/\ Settled /\ watch0.isHeadMethodSupported = "undefined"
      /\ \E i \in Sends("HEAD") :
           ~events[i].error /\ events[i].response.status = 404)
     => /\ result.kind = "not-ok"
        /\ watch.isHeadMethodSupported = "false"
  /\ probes.first = 404 => probes.count <= 1

\* C5 (as stated): a file or raw input polled repeatedly from an empty
\* WatchValues returns content without a buffer on the first poll and
\* not-modified on every later poll.
C5_FileThenNotModified ==
  (Settled /\ resolvedInput # "url") =>
     /\ polls = 1 => result.kind = "content" /\ ~result.arrayBuffer.def
     /\ polls > 1 => result.kind = "not-modified"

\* C6: a poll of a file or raw input calls neither the transport nor a hook;
\* it sets lastValue to the marker of the input type when lastValue was
\* unset, leaves it as it was otherwise, and never touches the stored
\* validators or isHeadMethodSupported.
C6_FileFrame ==
  (resolvedInput # "url" /\ polls > 0) =>
     /\ pc = "idle"
     /\ events = <<>>
     /\ watch.lastValue = IF watch0.lastValue.def THEN watch0.lastValue
                          ELSE Def(TypeName(resolvedInput))
     /\ watch.headers = watch0.headers
     /\ watch.isHeadMethodSupported = watch0.isHeadMethodSupported

C6_Witness ==
  /\ resolvedInput = "json" /\ polls = 2 /\ pc = "idle"
  /\ watch0.lastValue = Def(TypeName("json"))
  /\ watch.lastValue = Def(TypeName("json"))
  /\ events = <<>>

\* the polls of a URL source that never sends a validator and answers 2xx:
\* the poll before found an empty WatchValues and fetched a body, the last
\* one has fetched a body too; b1 and b2 are the two bodies
C7_Case ==
  /\ Settled /\ resolvedInput = "url" /\ ~BodyFailed
  /\ prev.fromEmpty /\ prev.get.status = 200 /\ prev.get.etag = Null
  /\ prev.kind # "fault"
  /\ \A i \in AllSends :
       /\ ~events[i].error /\ Ok(events[i].response)
       /\ events[i].response.etag = Null
       /\ events[i].response.lastModified = Null
  /\ Sends("GET") # {}

C7_Body1 == prev.get.body

C7_Body2 == events[CHOOSE j \in Sends("GET") : TRUE].response.body

\* C7 (as stated): with no validators and 2xx answers, two polls from an
\* empty WatchValues: equal GET bodies make the second poll not-modified,
\* different bodies make both polls content, and after each poll lastValue is
\* the text of the body that poll fetched.
C7_BodyRoundTrip ==
  C7_Case =>
     /\ C7_Body1 = C7_Body2 => result.kind = "not-modified"
     /\ C7_Body1 # C7_Body2 => prev.kind = "content" /\ result.kind = "content"
     /\ watch0.lastValue = Def(Decode(C7_Body1))
     /\ watch.lastValue = Def(Decode(C7_Body2))

\* C7 (amended): the same, the comparison being between the decoded texts of
\* the two bodies: equal texts make the second poll not-modified, different
\* texts make both polls content, and after each poll lastValue is the text of
\* the body that poll fetched.
C7_TextRoundTrip ==
  C7_Case =>
     /\ Decode(C7_Body1) = Decode(C7_Body2) => result.kind = "not-modified"
     /\ Decode(C7_Body1) # Decode(C7_Body2) =>
          prev.kind = "content" /\ result.kind = "content"
     /\ watch0.lastValue = Def(Decode(C7_Body1))
     /\ watch.lastValue = Def(Decode(C7_Body2))

C7_Witness ==
  /\ C7_Case
  /\ C7_Body1 = <<254>> /\ C7_Body2 = <<255>>
  /\ Sends("HEAD") # {}
  /\ result.kind = "not-modified"
  /\ watch.lastValue = Def(<<65533>>)

\* C8: in either block of a URL poll, a transport call that fails or is
\* answered with a status >= 300 is the last transport call of the
\* invocation, only its post hook follows it, and the invocation returns
\* not-ok; when it is the HEAD call, no GET call is made.
C8_FailureReturnsNotOk ==
  \A i \in AllSends :
    SendFailed(i) =>
      /\ \A k \in DOMAIN events : k > i => events[k].kind = "post"
      /\ events[i].phase = "HEAD" => Sends("GET") = {}
      /\ Settled => result.kind = "not-ok"

C8_Witness ==
  /\ Settled /\ result.kind = "not-ok"
  /\ \E i \in Sends("HEAD") : events[i].error
  /\ Sends("GET") = {}

\* C9 (as stated): a HEAD response with status 304 makes the invocation
\* return not-modified without a GET call.
C9_Head304NotModified ==
  (Settled /\ \E i \in Sends("HEAD") :
                ~events[i].error /\ events[i].response.status = 304)
  => /\ result.kind = "not-modified"
     /\ Sends("GET") = {}

\* C10 (as stated): provided no hook fails, every invocation settles by
\* returning content, not-modified or not-ok, whatever the input, the
\* WatchValues and the transport do; nothing escapes as a rejection.
C10_AlwaysAnOutcome ==
  (Settled /\ ~HookThrew) =>
     result.kind \in {"content", "not-modified", "not-ok"}

\* position of the post hook call that follows the call at position i
HookedAfter(i, j) ==
  \E k \in DOMAIN events :
    /\ i < k /\ k < j
    /\ events[k].kind = "post" /\ events[k].phase = events[i].phase

\* C11: an invocation makes at most two transport calls, at most one from
\* the HEAD block and at most one from the GET block; the HEAD call has
\* returned (its post hook has run) before the GET call is issued; no call
\* is made a second time.
C11_AtMostHeadThenGet ==
  /\ Cardinality(Sends("HEAD")) <= 1
  /\ Cardinality(Sends("GET")) <= 1
  /\ Cardinality(AllSends) <= 2
  /\ \A i \in Sends("HEAD") : \A j \in Sends("GET") :
       i < j /\ ~events[i].error /\ HookedAfter(i, j)

C11_Witness ==
  /\ Settled
  /\ Cardinality(Sends("HEAD")) = 1 /\ Cardinality(Sends("GET")) = 1
  /\ \E j \in Sends("GET") : events[j].error
  /\ result.kind = "not-ok"

\* the response validator that belongs to a stored validator
ValidatorOf(n, r) == IF n = "If-None-Match" THEN r.etag ELSE r.lastModified

\* C12: a stored validator changes only in the step that judges a HEAD
\* response carrying the matching response validator with another value, and
\* it then becomes that value; no step removes it, and the GET block, the
\* error paths and the file path leave it alone.
C12_ValidatorWrites ==
  [][\A n \in DOMAIN EmptyHeaders :
       watch'.headers[n] # watch.headers[n] =>
         /\ pc = "head_post"
         /\ ValidatorOf(n, request) # Null
         /\ ValidatorOf(n, request) # watch.headers[n]
         /\ watch'.headers[n] = ValidatorOf(n, request)]_vars

C12_Witness ==
  /\ watch0.headers["If-Modified-Since"] = "m1"
  /\ watch.headers["If-Modified-Since"] = "m2"
  /\ \E i \in Sends("HEAD") : events[i].response.lastModified = "m2"
  /\ Sends("GET") # {}

\* C13: once isHeadMethodSupported is false it stays false and no later poll
\* makes a HEAD call; isHeadMethodSupported is written only while it is
\* undefined, so a value of true or false never changes.
C13_HeadSupportFinal ==
  /\ [](watch0.isHeadMethodSupported = "false" =>
          \A i \in DOMAIN events : events[i].phase # "HEAD")
  /\ [][watch.isHeadMethodSupported # "undefined" =>
          watch'.isHeadMethodSupported = watch.isHeadMethodSupported]_vars

C13_Witness ==
  /\ Settled /\ polls = 3
  /\ watch0.isHeadMethodSupported = "false"
  /\ watch.isHeadMethodSupported = "false"
  /\ Truthy(watch0.lastValue)
  /\ Sends("HEAD") = {} /\ Sends("GET") # {}
  /\ probes.count = 1

\* C14 (as stated): in every poll of a URL source that finds lastValue set
\* by an earlier poll (to any content, an empty body included) and
\* isHeadMethodSupported not false, a HEAD call is made before any GET.
C14_HeadUnlessUnsetOrUnsupported ==
  (/\ resolvedInput = "url" /\ polls > 0
   /\ watch0.lastValue.def /\ watch0.isHeadMethodSupported # "false")
  => /\ \A j \in DOMAIN events :
          events[j].phase = "GET" => \E i \in Sends("HEAD") : i < j
     /\ Settled => Sends("HEAD") # {}

\* getSpec is in its GET block
InGetBlock ==
  pc \in {"get_pre", "get_send", "get_post", "get_body", "get_catch"}

\* C15: when a 2xx HEAD response carries an ETag, changed / not changed is
\* (ETag differs from the stored If-None-Match) whatever Last-Modified the
\* response carries: not changed ends the poll as not-modified without a
\* GET, changed leads to the GET block with hasChanged true; the stored
\* If-Modified-Since is as the poll found it.
C15_ETagFirst ==
  \A i \in Sends("HEAD") :
    (~events[i].error /\ Ok(events[i].response)
     /\ events[i].response.etag # Null)
    => LET changed ==
             events[i].response.etag # watch0.headers["If-None-Match"]
       IN /\ watch.headers["If-Modified-Since"] =
               watch0.headers["If-Modified-Since"]
          /\ InGetBlock => changed /\ hasChanged = "true"
          /\ (\E j \in DOMAIN events : events[j].phase = "GET") => changed
          /\ Settled /\ changed => Sends("GET") # {}
          /\ Settled /\ ~changed => result.kind = "not-modified"

C15_Witness ==
  /\ Settled /\ result.kind = "not-modified"
  /\ watch0.headers = [EmptyHeaders EXCEPT !["If-None-Match"] = "e1"]
  /\ watch.headers = watch0.headers
  /\ \E i \in Sends("HEAD") :
       /\ events[i].response.status = 200
       /\ events[i].response.etag = "e1"
       /\ events[i].response.lastModified = "m1"

\* the validator the HEAD block consults in response r equals the stored one
SameValidator(r, w) ==
  \/ r.etag # Null /\ r.etag = w.headers["If-None-Match"]
  \/ /\ r.etag = Null /\ r.lastModified # Null
     /\ r.lastModified = w.headers["If-Modified-Since"]

\* what C16 says of a poll whose HEAD response matched the stored validator
C16_NotModifiedUntouched ==
  /\ \A j \in DOMAIN events : events[j].phase = "HEAD"
  /\ watch.lastValue = watch0.lastValue
  /\ watch.headers = watch0.headers
  /\ Settled => result.kind = "not-modified"

\* C16 (as stated): a HEAD response with status below 300 whose consulted
\* validator equals the stored one makes the invocation return not-modified
\* without a GET, lastValue and both stored validators unchanged.
C16_SameValidatorBelow300 ==
  \A i \in Sends("HEAD") :
    (/\ ~events[i].error /\ events[i].response.status < 300
     /\ SameValidator(events[i].response, watch0))
    => C16_NotModifiedUntouched

\* C16 (amended): the same for a HEAD response with status 2xx.
C16_SameValidator2xx ==
  \A i \in Sends("HEAD") :
    (/\ ~events[i].error /\ Ok(events[i].response)
     /\ SameValidator(events[i].response, watch0))
    => C16_NotModifiedUntouched

C16_Witness ==
  /\ Settled /\ result.kind = "not-modified"
  /\ watch0.headers["If-Modified-Since"] = "m1"
  /\ watch.headers = watch0.headers /\ watch.lastValue = watch0.lastValue
  /\ Sends("GET") = {}
  /\ \E i \in Sends("HEAD") :
       /\ events[i].response.status = 200
       /\ events[i].response.etag = Null
       /\ events[i].response.lastModified = "m1"

\* the HEAD block left changed / not changed open: it was skipped, or its
\* response carried neither validator
HeadUndetermined ==
  \A i \in Sends("HEAD") :
    /\ ~events[i].error
    /\ events[i].response.etag = Null
    /\ events[i].response.lastModified = Null

\* C17: in a URL poll whose GET succeeds with 2xx and whose HEAD block left
\* the decision open, lastValue afterwards is the text of the fetched body
\* whether or not it equals the old lastValue; the poll returns not-modified
\* exactly when the text equals the old lastValue, content with the body
\* otherwise.
C17_ContentFallback ==
  \A j \in Sends("GET") :
    (/\ Settled /\ ~BodyFailed /\ HeadUndetermined
     /\ ~events[j].error /\ Ok(events[j].response))
    => LET body == events[j].response.body
       IN /\ watch.lastValue = Def(Decode(body))
          /\ IF Def(Decode(body)) = watch0.lastValue
               THEN result.kind = "not-modified"
               ELSE /\ result.kind = "content"
                    /\ result.arrayBuffer = Def(body)

C17_Witness ==
  /\ Settled /\ result.kind = "content"
  /\ Sends("HEAD") # {} /\ HeadUndetermined
  /\ watch0.lastValue = Def(<<97>>)
  /\ watch.lastValue = Def(<<65533>>)
  /\ \E j \in Sends("GET") : events[j].response.body = <<255>>

\* C18 (as stated): for a URL source, after a poll that returns content,
\* lastValue is the text of the body returned.
C18_LastValueIsLastContent ==
  (Settled /\ resolvedInput = "url" /\ result.kind = "content") =>
     watch.lastValue = Def(Decode(result.arrayBuffer.val))

\* the hook and transport calls of the invocation, in order
Calls == SelectSeq(events, LAMBDA e : e.kind # "body")

\* the kind of the k-th call when calls come as (pre, send, post) triples
KindAt(k) ==
  CASE k % 3 = 1 -> "pre"
    [] k % 3 = 2 -> "send"
    [] OTHER -> "post"

\* C19 (as stated): the calls of an invocation are (pre, send, post) triples,
\* at most a HEAD triple followed by a GET triple: the pre hook of a method
\* has returned before the transport call is made, exactly one post hook of
\* that method follows the transport call before getSpec returns or moves
\* on, and it is handed the error when the transport call failed.
C19_HooksBracketCalls ==
  LET c == Calls
  IN /\ Len(c) <= 6
     /\ \A k \in DOMAIN c :
          /\ c[k].kind = KindAt(k)
          /\ c[k].phase = c[k - ((k - 1) % 3)].phase
          /\ c[k].kind # "send" => c[k].method = c[k].phase
          /\ c[k].kind = "post" => c[k].error = c[k - 1].error
     /\ Len(c) > 3 => c[1].phase = "HEAD" /\ c[4].phase = "GET"
     /\ Settled =>
          \A k \in DOMAIN c : c[k].kind = "send" => k + 1 \in DOMAIN c

\* ------------------------------------- a server with ETag-named versions
InitServer ==
  /\ resolvedInput = "url"
  /\ watch = EmptyWatch
  /\ pc = "idle"
  /\ fetchOptions = "none"
  /\ hasChanged = "undefined"
  /\ request = NoResponse
  /\ response = NoLocalResponse
  /\ arrayBuffer = Undefined
  /\ events = <<>>
  /\ result = NoResult
  /\ watch0 = EmptyWatch
  /\ prev = NoPoll
  /\ polls = 0
  /\ probes = NoProbes
  /\ server \in Versions
  /\ delivered = {}

\* the document changes on the server between two polls
ServerChange ==
  /\ pc = "idle"
  /\ server \in Versions
  /\ \E v \in Versions \ {server} : server' = v
  /\ UNCHANGED <<resolvedInput, watch, pc, fetchOptions, hasChanged, request,
                 response, arrayBuffer, events, result, watch0, prev, polls,
                 probes, delivered>>

NextServer ==
  \/ PollUrl
  \/ HeadPre
  \/ HeadSend
  \/ HeadSendFail
  \/ HeadPost
  \/ HeadCatch
  \/ GetPre
  \/ GetSend
  \/ GetSendFail
  \/ GetPost
  \/ GetBody
  \/ GetBodyFail
  \/ GetCatch
  \/ ServerChange

\* polls of a server that answers 200 or not at all, hooks that resolve
SpecServer == InitServer /\ [][NextServer]_vars

\* C20 (as stated): with a server that names every version by its ETag, and
\* whatever the server changes and transport failures, no poll returns
\* not-modified while the server holds a version that no earlier poll has
\* returned as content; a new ETag seen by HEAD whose GET then fails is
\* still returned as content by a later poll.
C20_NoLostUpdate ==
  [][(pc # "idle" /\ pc' = "idle" /\ result'.kind = "not-modified") =>
       server \in delivered']_vars

====
